---------------------------- MODULE Spec2Model ----------------------------
(***************************************************************************)
(* Clinical variant annotation pipeline: src/src/parser.py (parse_vcf),    *)
(* src/src/annotator.py (annotate_variants and its four providers) and     *)
(* src/src/prioritizer.py (prioritize_variants), run in that order as      *)
(* src/app.py does.                                                        *)
(*                                                                         *)
(* Text that the code scans (lines, fields, alleles, consequence terms,    *)
(* response bodies) is a sequence of one-character strings; text that the  *)
(* code only compares for equality (sentinels, tier names) is a string.    *)
(* Allele frequencies are integers in units of 1/AfScale and CADD scores   *)
(* integers in units of 1/CaddScale.                                       *)
(***************************************************************************)
EXTENDS Integers, Sequences, FiniteSets, TLC

VARIABLES
    file,                   \* the lines of the VCF file parse_vcf reads
    lineno,                 \* number of lines parse_vcf has consumed
    variants,               \* parse_vcf's list of row dicts
    exc,                    \* the exception that ended the run: [type |-> ...]
    pc,                     \* where the program is
    parsed,                 \* history: the frame parse_vcf returned
    df,                     \* the DataFrame, a sequence of rows (row k = index k-1)
    i,                      \* rows the running provider loop has iterated
    clinical_significance,  \* annotate_with_clinvar's lists
    conditions,
    frequencies,            \* annotate_with_gnomad's list
    cadd_scores,            \* annotate_with_cadd's list
    consequences,           \* annotate_with_vep's lists
    gene_symbols,
    calls,                  \* history: per provider, how the call for each row ended
    order                   \* history: sort_values' indexer (output row k = input row order[k])

vars == <<file, lineno, variants, exc, pc, parsed, df, i, clinical_significance,
          conditions, frequencies, cadd_scores, consequences, gene_symbols,
          calls, order>>

-----------------------------------------------------------------------------
(* Python built-ins the code applies to text *)

TAB == "\t"
NL == "\n"
Digits == <<"0","1","2","3","4","5","6","7","8","9">>

\* whitespace as str.strip() sees it
IsSpace(c) == c \in {" ", TAB, NL, "\r"}

RECURSIVE LStrip(_)
LStrip(s) == IF s # <<>> /\ IsSpace(Head(s)) THEN LStrip(Tail(s)) ELSE s

RECURSIVE RStrip(_)
RStrip(s) ==
    IF s # <<>> /\ IsSpace(s[Len(s)]) THEN RStrip(SubSeq(s, 1, Len(s) - 1)) ELSE s

\* str.strip()
Strip(s) == RStrip(LStrip(s))

\* str.startswith(prefix)
StartsWith(s, prefix) ==
    Len(s) >= Len(prefix) /\ SubSeq(s, 1, Len(prefix)) = prefix

RECURSIVE SplitFrom(_, _, _)
SplitFrom(s, sep, cur) ==
    IF s = <<>> THEN <<cur>>
    ELSE IF Head(s) = sep THEN <<cur>> \o SplitFrom(Tail(s), sep, <<>>)
    ELSE SplitFrom(Tail(s), sep, Append(cur, Head(s)))

\* str.split(sep) with a one-character separator: always at least one field
Split(s, sep) == SplitFrom(s, sep, <<>>)

\* needle in hay (substring test)
Contains(needle, hay) ==
    \E k \in 1..(Len(hay) - Len(needle) + 1) :
        SubSeq(hay, k, k + Len(needle) - 1) = needle

IsDigit(c) == \E d \in 1..10 : Digits[d] = c

DigitValue(c) == (CHOOSE d \in 1..10 : Digits[d] = c) - 1

RECURSIVE DigitsValue(_, _)
DigitsValue(s, acc) ==
    IF s = <<>> THEN acc ELSE DigitsValue(Tail(s), 10 * acc + DigitValue(Head(s)))

AllDigits(s) == s # <<>> /\ \A k \in 1..Len(s) : IsDigit(s[k])

\* the digits of an int() literal once its sign is dropped
Unsigned(s) == IF s # <<>> /\ Head(s) \in {"+", "-"} THEN Tail(s) ELSE s

\* int(s) succeeds: an optional sign and decimal digits (surrounding blanks
\* and underscores, which int() also accepts, are not among the inputs)
IntOk(s) == AllDigits(Unsigned(s))

\* int(s), where IntOk(s)
ParseInt(s) ==
    IF Head(s) = "-" THEN 0 - DigitsValue(Unsigned(s), 0)
    ELSE DigitsValue(Unsigned(s), 0)

RECURSIVE NatToStr(_)
NatToStr(n) ==
    IF n < 10 THEN <<Digits[n + 1]>>
    ELSE Append(NatToStr(n \div 10), Digits[(n % 10) + 1])

\* an int formatted by an f-string
IntToStr(n) == IF n < 0 THEN <<"-">> \o NatToStr(0 - n) ELSE NatToStr(n)

-----------------------------------------------------------------------------
(* Inputs: lines of VCF text *)

MetaLine == <<"#","#","f","i","l","e","f","o","r","m","a","t","=","V","C","F","v","4",".","2","\n">>
ColumnLine == <<"#","C","H","R","O","M","\t","P","O","S","\t","I","D","\t","R","E","F","\t","A","L","T","\t","Q","U","A","L","\t","F","I","L","T","E","R","\n">>
SnvLine == <<"c","h","r","1","\t","1","0","0","\t",".","\t","A","\t","T","\t","5","0","\t","P","A","S","S","\n">>
DeletionLine == <<"c","h","r","2","\t","0","0","7","\t","r","s","1","\t","A","T","G","\t","A","\t",".","\t","q","1","0","\n">>
InsertionLine == <<"c","h","r","X","\t","1","2","\t",".","\t","A","\t","A","T","G","\t","9","9","\t","P","A","S","S","\t","D","P","=","1","0","\n">>
SubstitutionLine == <<"c","h","r","3","\t","5","\t",".","\t","A","T","\t","G","C","\t","3","0","\t","P","A","S","S","\n">>
ShortLine == <<"c","h","r","1","\t","1","0","0","\t",".","\t","A","\t","T","\n">>
BadPosLine == <<"c","h","r","1","\t","a","b","c","\t",".","\t","A","\t","T","\t","5","0","\t","P","A","S","S","\n">>
BlankLine == <<"\n">>

\* longest file, in lines, the parser is run on
MaxLines == 2

InputLines ==
    {MetaLine, ColumnLine, SnvLine, DeletionLine, InsertionLine,
     SubstitutionLine, ShortLine, BadPosLine, BlankLine}

RECURSIVE SeqsUpTo(_, _)
SeqsUpTo(S, n) ==
    IF n = 0 THEN {<<>>}
    ELSE LET shorter == SeqsUpTo(S, n - 1)
         IN  shorter \cup {Append(q, x) : q \in shorter, x \in S}

InputFiles == SeqsUpTo(InputLines, MaxLines)

-----------------------------------------------------------------------------
(* src/src/parser.py *)

create_variant_id(chrom, pos, ref, alt) ==
    chrom \o <<"-">> \o IntToStr(pos) \o <<"-">> \o ref \o <<"-">> \o alt

\* the header test at the top of the loop body
IsHeaderLine(line) ==
    StartsWith(line, <<"#","#">>) \/ StartsWith(line, <<"#","C","H","R","O","M">>)

\* fields = line.strip().split('\t'); sequences are 1-based, so fields[k]
\* of the code is Fields(line)[k + 1]
Fields(line) == Split(Strip(line), TAB)

\* the exception the field reads of one data line raise, in the order the
\* code evaluates them: fields[1], int(), then fields[3] .. fields[6]
FieldError(fields) ==
    IF Len(fields) < 2 THEN "IndexError"
    ELSE IF ~IntOk(fields[2]) THEN "ValueError"
    ELSE IF Len(fields) < 7 THEN "IndexError"
    ELSE "none"

\* a slip in the test for an SNV: only the reference allele's length is looked at
VariantTypeByRef(ref, alt) ==
    IF Len(ref) = 1 THEN "SNV"
    ELSE IF Len(ref) > Len(alt) THEN "deletion"
    ELSE "insertion"

VariantType(ref, alt) ==
    IF Len(ref) = 1 /\ Len(alt) = 1 THEN "SNV"
    ELSE IF Len(ref) > Len(alt) THEN "deletion"
    ELSE "insertion"

\* the dict appended for a data line whose fields all read
VariantRow(fields) ==
    LET chrom == fields[1]
        pos == ParseInt(fields[2])
        ref == fields[4]
        alt == fields[5]
    IN  [variant_id |-> create_variant_id(chrom, pos, ref, alt),
         chrom |-> chrom,
         pos |-> pos,
         ref |-> ref,
         alt |-> alt,
         qual |-> fields[6],
         filter |-> fields[7],
         variant_type |-> VariantType(ref, alt)]

NoException == [type |-> "none"]

NoLists ==
    /\ clinical_significance = <<>>
    /\ conditions = <<>>
    /\ frequencies = <<>>
    /\ cadd_scores = <<>>
    /\ consequences = <<>>
    /\ gene_symbols = <<>>

NoCalls == [clinvar |-> <<>>, gnomad |-> <<>>, cadd |-> <<>>, vep |-> <<>>]

\* parse_vcf is entered with an empty list
ParseStart(f) ==
    /\ file = f
    /\ lineno = 0
    /\ variants = <<>>
    /\ exc = NoException
    /\ pc = "parse"
    /\ parsed = <<>>
    /\ df = <<>>
    /\ i = 0
    /\ NoLists
    /\ calls = NoCalls
    /\ order = <<>>

annotVars == <<i, clinical_significance, conditions, frequencies, cadd_scores,
               consequences, gene_symbols, calls>>

\* a '##' or '#CHROM' line: continue
SkipHeaderLine ==
    /\ pc = "parse"
    /\ lineno < Len(file)
    /\ IsHeaderLine(file[lineno + 1])
    /\ lineno' = lineno + 1
    /\ UNCHANGED <<file, variants, exc, pc, parsed, df, order>>
    /\ UNCHANGED annotVars

\* a data line whose fields all read: one dict appended
ParseDataLine ==
    /\ pc = "parse"
    /\ lineno < Len(file)
    /\ ~IsHeaderLine(file[lineno + 1])
    /\ FieldError(Fields(file[lineno + 1])) = "none"
    /\ variants' = Append(variants, VariantRow(Fields(file[lineno + 1])))
    /\ lineno' = lineno + 1
    /\ UNCHANGED <<file, exc, pc, parsed, df, order>>
    /\ UNCHANGED annotVars

\* a data line with a missing field or a position int() rejects: the
\* exception is caught nowhere, parse_vcf ends and its list is lost
ParseRaise ==
    /\ pc = "parse"
    /\ lineno < Len(file)
    /\ ~IsHeaderLine(file[lineno + 1])
    /\ FieldError(Fields(file[lineno + 1])) # "none"
    /\ exc' = [type |-> FieldError(Fields(file[lineno + 1]))]
    /\ pc' = "raised"
    /\ lineno' = lineno + 1
    /\ variants' = <<>>
    /\ UNCHANGED <<file, parsed, df, order>>
    /\ UNCHANGED annotVars

\* end of file: return pd.DataFrame(variants)
ParseReturn ==
    /\ pc = "parse"
    /\ lineno = Len(file)
    /\ df' = variants
    /\ parsed' = variants
    /\ pc' = "clinvar"
    /\ UNCHANGED <<file, lineno, variants, exc, order>>
    /\ UNCHANGED annotVars

InitParse == \E f \in InputFiles : ParseStart(f)

NextParse ==
    \/ SkipHeaderLine
    \/ ParseDataLine
    \/ ParseRaise
    \/ ParseReturn

SpecParse == InitParse /\ [][NextParse]_vars

-----------------------------------------------------------------------------
(* What the providers answer.  A JSON value is tagged with its kind; a body  *)
(* that is not JSON is text.                                                *)

JNull == [t |-> "null"]
JNum(n) == [t |-> "num", v |-> n]
JStr(s) == [t |-> "str", v |-> s]
JList(q) == [t |-> "list", v |-> q]
JObj(r) == [t |-> "obj", v |-> r]
JEmptyObj == [t |-> "obj", v |-> <<>>]
Text(s) == [t |-> "text", v |-> s]

\* bool(x) of a parsed JSON value
Truthy(j) ==
    CASE j.t = "null" -> FALSE
      [] j.t = "num" -> j.v # 0
      [] j.t = "str" -> j.v # <<>>
      [] j.t = "list" -> j.v # <<>>
      [] j.t = "obj" -> DOMAIN j.v # {}
      [] OTHER -> TRUE

\* d.get(k, default) of a dict
DictGet(d, k, default) == IF k \in DOMAIN d.v THEN d.v[k] ELSE default

\* allele frequencies are counted in units of 1/AfScale, CADD scores in
\* units of 1/CaddScale
AfScale == 10000
CaddScale == 10

\* the lookup-failure value -1 of gnomad_af and of cadd_score
AfFailed == 0 - AfScale
CaddFailed == 0 - CaddScale

\* the body each service returns with status 200, by the position asked for
ClinvarBody(pos) ==
    CASE pos = 100 -> JObj([esearchresult |-> JObj([idlist |-> JList(<<<<"1","7","6","6","1">>>>)])])
      [] pos = 7 -> JObj([esearchresult |-> JObj([idlist |-> JList(<<>>)])])
      [] pos = 12 -> JObj([error |-> JStr(<<"b","u","s","y">>)])
      [] OTHER -> Text(<<"<","h","t","m","l",">">>)

GnomadBody(pos) ==
    CASE pos = 100 ->
           JObj([data |-> JObj([variant |-> JObj([genome |->
               JObj([ac |-> JNum(3), an |-> JNum(6000), af |-> JNum(5)])])])])
      [] pos = 7 -> JObj([data |-> JObj([variant |-> JNull])])
      [] pos = 12 -> JObj([data |-> JNull, errors |-> JList(<<JStr(<<"b","a","d"," ","i","d">>)>>)])
      [] OTHER ->
           JObj([data |-> JObj([variant |-> JObj([genome |->
               JObj([af |-> JNum(3000)])])])])

CaddBody(pos) ==
    CASE pos = 100 -> Text(<<"#","C","h","r","o","m","\t","P","o","s","\t","R","e","f","\t","A","l","t","\t","R","a","w","S","c","o","r","e","\t","P","H","R","E","D","\n","1","\t","1","0","0","\t","A","\t","T","\t","4",".","2","\t","3","5",".","0","\n">>)
      [] pos = 7 -> Text(<<"#","C","h","r","o","m","\t","P","o","s","\t","R","e","f","\t","A","l","t","\t","R","a","w","S","c","o","r","e","\t","P","H","R","E","D","\n">>)
      [] pos = 12 -> Text(<<"#","C","h","r","o","m","\t","P","o","s","\t","R","e","f","\t","A","l","t","\t","R","a","w","S","c","o","r","e","\t","P","H","R","E","D","\n","X","\t","1","2","\t","A","\t","A","T","G","\t","0",".","5","\t","N","A","\n">>)
      [] OTHER -> Text(<<"#","C","h","r","o","m","\t","P","o","s","\t","R","e","f","\t","A","l","t","\t","R","a","w","S","c","o","r","e","\t","P","H","R","E","D","\n","3","\t","5","\t","A","T","\t","G","C","\t","2",".","1","\t","2","2","\n">>)

VepBody(pos) ==
    CASE pos = 100 ->
           JList(<<JObj([transcript_consequences |-> JList(<<
               JObj([consequence_terms |-> JList(<<JStr(<<"s","t","o","p","_","g","a","i","n","e","d">>)>>),
                     gene_symbol |-> JStr(<<"B","R","C","A","1">>)])>>)])>>)
      [] pos = 7 -> JList(<<>>)
      [] pos = 12 ->
           JList(<<JObj([transcript_consequences |-> JList(<<
               JObj([consequence_terms |-> JList(<<JStr(<<"u","p","s","t","r","e","a","m","_","g","e","n","e","_","v","a","r","i","a","n","t">>)>>)])>>)])>>)
      [] OTHER -> JList(<<JObj([transcript_consequences |-> JList(<<>>)])>>)

\* how one call ends: status 200, another status, or requests raising
\* (timeout, connection error)
Outcomes == {"ok", "non200", "exception"}

Failures == {"non200", "exception"}

\* what the history keeps of a gnomAD or CADD call: both kinds of failure
\* take the same value, -1, and leave no other trace
Ended(o) == IF o \in Failures THEN "failed" ELSE o

Response(o, body) ==
    CASE o = "ok" -> [raised |-> FALSE, status_code |-> 200, body |-> body]
      [] o = "non200" -> [raised |-> FALSE, status_code |-> 500, body |-> Text(<<>>)]
      [] OTHER -> [raised |-> TRUE, status_code |-> 0, body |-> Text(<<>>)]

-----------------------------------------------------------------------------
(* src/src/annotator.py *)

\* the try block of annotate_with_clinvar: (clin_sig, condition)
ClinvarAnnotation(resp) ==
    LET raise == [clin_sig |-> "error", condition |-> "error"]
        data == resp.body
    IN  IF resp.raised THEN raise
        ELSE IF resp.status_code # 200
        THEN [clin_sig |-> "api_error", condition |-> "api_error"]
        ELSE IF data.t # "obj" THEN raise
        ELSE LET esearchresult == DictGet(data, "esearchresult", JEmptyObj)
             IN  IF esearchresult.t # "obj" THEN raise
                 ELSE IF Truthy(DictGet(esearchresult, "idlist", JList(<<>>)))
                 THEN [clin_sig |-> "found_in_clinvar", condition |-> "see_clinvar"]
                 ELSE [clin_sig |-> "not_in_clinvar", condition |-> "none"]

\* the try block of annotate_with_gnomad: freq
GnomadFrequency(resp) ==
    LET data == resp.body
    IN  IF resp.raised THEN AfFailed
        ELSE IF resp.status_code # 200 THEN AfFailed
        ELSE IF data.t # "obj" THEN AfFailed
        ELSE LET inner == DictGet(data, "data", JEmptyObj)
             IN  IF inner.t # "obj" THEN AfFailed
                 ELSE LET variant_data == DictGet(inner, "variant", JNull)
                      IN  IF ~Truthy(variant_data) THEN 0
                          ELSE IF variant_data.t # "obj" THEN AfFailed
                          ELSE LET genome == DictGet(variant_data, "genome", JNull)
                               IN  IF ~Truthy(genome) THEN 0
                                   ELSE IF genome.t # "obj" THEN AfFailed
                                   ELSE LET af == DictGet(genome, "af", JNum(0))
                                        IN  IF Truthy(af) THEN af.v ELSE 0

\* float(s) succeeds: digits, or digits '.' digit, after an optional sign
\* (the other spellings float() accepts are not among the inputs)
FloatOk(s) ==
    LET parts == Split(Unsigned(s), ".")
    IN  \/ Len(parts) = 1 /\ AllDigits(parts[1])
        \/ Len(parts) = 2 /\ AllDigits(parts[1]) /\ Len(parts[2]) = 1 /\ IsDigit(parts[2][1])

\* float(s) in units of 1/CaddScale, where FloatOk(s)
ParseFloat(s) ==
    LET parts == Split(Unsigned(s), ".")
        whole == DigitsValue(parts[1], 0) * CaddScale
        magnitude == IF Len(parts) = 2 THEN whole + DigitValue(parts[2][1]) ELSE whole
    IN  IF Head(s) = "-" THEN 0 - magnitude ELSE magnitude

\* the try block of annotate_with_cadd: score
CaddScoreOf(resp) ==
    IF resp.raised THEN CaddFailed
    ELSE IF resp.status_code # 200 THEN CaddFailed
    ELSE LET lines == Split(Strip(resp.body.v), NL)
         IN  IF Len(lines) > 1
             THEN LET fields == Split(lines[2], TAB)
                  IN  IF FloatOk(fields[Len(fields)])
                      THEN ParseFloat(fields[Len(fields)])
                      ELSE CaddFailed
             ELSE CaddFailed

\* the try block of annotate_with_vep: (consequence, gene)
VepAnnotation(resp) ==
    LET raise == [consequence |-> <<"e","r","r","o","r">>, gene |-> <<"e","r","r","o","r">>]
        unknown == [consequence |-> <<"u","n","k","n","o","w","n">>, gene |-> <<"u","n","k","n","o","w","n">>]
        data == resp.body
    IN  IF resp.raised THEN raise
        ELSE IF resp.status_code # 200
        THEN [consequence |-> <<"a","p","i","_","e","r","r","o","r">>, gene |-> <<"a","p","i","_","e","r","r","o","r">>]
        ELSE IF data.t = "text" THEN raise
        ELSE IF ~Truthy(data) THEN unknown
        ELSE IF data.t # "list" \/ data.v[1].t # "obj" THEN raise
        ELSE LET found == DictGet(data.v[1], "transcript_consequences",
                                  JList(<<JEmptyObj>>))
             IN  IF found.t # "list" \/ found.v = <<>> THEN raise
                 ELSE IF found.v[1].t # "obj" THEN raise
                 ELSE LET transcript == found.v[1]
                          terms == DictGet(transcript, "consequence_terms",
                                           JList(<<JStr(<<"u","n","k","n","o","w","n">>)>>))
                          gene == DictGet(transcript, "gene_symbol", JStr(<<"u","n","k","n","o","w","n">>))
                      IN  IF terms.t # "list" \/ terms.v = <<>> THEN raise
                          ELSE [consequence |-> terms.v[1].v, gene |-> gene.v]

\* df[name] = values: every row widened by one column, row k taking values[k]
SetColumn(frame, name, values) ==
    [k \in 1..Len(frame) |-> (name :> values[k]) @@ frame[k]]

parseVars == <<file, lineno, variants, exc, parsed, order>>

\* one iteration of annotate_with_clinvar's loop
ClinvarLookup ==
    /\ pc = "clinvar"
    /\ i < Len(df)
    /\ \E o \in Outcomes :
         LET a == ClinvarAnnotation(Response(o, ClinvarBody(df[i + 1].pos)))
         IN  /\ clinical_significance' = Append(clinical_significance, a.clin_sig)
             /\ conditions' = Append(conditions, a.condition)
             /\ calls' = [calls EXCEPT !.clinvar = Append(@, o)]
    /\ i' = i + 1
    /\ UNCHANGED <<pc, df, frequencies, cadd_scores, consequences, gene_symbols>>
    /\ UNCHANGED parseVars

\* a slip in annotate_with_clinvar: the rows whose lookup failed are dropped
\* on return
ClinvarReturnDroppingFailures ==
    /\ pc = "clinvar"
    /\ i = Len(df)
    /\ df' = SelectSeq(
                SetColumn(SetColumn(df, "clinvar_significance", clinical_significance),
                          "clinvar_condition", conditions),
                LAMBDA row : row.clinvar_significance \notin {"api_error", "error"})
    /\ clinical_significance' = <<>>
    /\ conditions' = <<>>
    /\ i' = 0
    /\ pc' = "gnomad"
    /\ UNCHANGED <<frequencies, cadd_scores, consequences, gene_symbols, calls>>
    /\ UNCHANGED parseVars

\* after the loop: the two columns are set and the frame returned
ClinvarReturn ==
    /\ pc = "clinvar"
    /\ i = Len(df)
    /\ df' = SetColumn(SetColumn(df, "clinvar_significance", clinical_significance),
                       "clinvar_condition", conditions)
    /\ clinical_significance' = <<>>
    /\ conditions' = <<>>
    /\ i' = 0
    /\ pc' = "gnomad"
    /\ UNCHANGED <<frequencies, cadd_scores, consequences, gene_symbols, calls>>
    /\ UNCHANGED parseVars

\* one iteration of annotate_with_gnomad's loop
GnomadLookup ==
    /\ pc = "gnomad"
    /\ i < Len(df)
    /\ \E o \in Outcomes :
         /\ frequencies' =
                Append(frequencies, GnomadFrequency(Response(o, GnomadBody(df[i + 1].pos))))
         /\ calls' = [calls EXCEPT !.gnomad = Append(@, Ended(o))]
    /\ i' = i + 1
    /\ UNCHANGED <<pc, df, clinical_significance, conditions, cadd_scores,
                   consequences, gene_symbols>>
    /\ UNCHANGED parseVars

\* a slip in annotate_with_gnomad: one failed lookup marks the whole column
\* as failed
GnomadReturnAllOrNothing ==
    /\ pc = "gnomad"
    /\ i = Len(df)
    /\ df' = SetColumn(df, "gnomad_af",
                       IF \E k \in 1..Len(frequencies) : frequencies[k] = AfFailed
                       THEN [k \in 1..Len(frequencies) |-> AfFailed]
                       ELSE frequencies)
    /\ frequencies' = <<>>
    /\ i' = 0
    /\ pc' = "cadd"
    /\ UNCHANGED <<clinical_significance, conditions, cadd_scores, consequences,
                   gene_symbols, calls>>
    /\ UNCHANGED parseVars

GnomadReturn ==
    /\ pc = "gnomad"
    /\ i = Len(df)
    /\ df' = SetColumn(df, "gnomad_af", frequencies)
    /\ frequencies' = <<>>
    /\ i' = 0
    /\ pc' = "cadd"
    /\ UNCHANGED <<clinical_significance, conditions, cadd_scores, consequences,
                   gene_symbols, calls>>
    /\ UNCHANGED parseVars

\* one iteration of annotate_with_cadd's loop
CaddLookup ==
    /\ pc = "cadd"
    /\ i < Len(df)
    /\ \E o \in Outcomes :
         /\ cadd_scores' =
                Append(cadd_scores, CaddScoreOf(Response(o, CaddBody(df[i + 1].pos))))
         /\ calls' = [calls EXCEPT !.cadd = Append(@, Ended(o))]
    /\ i' = i + 1
    /\ UNCHANGED <<pc, df, clinical_significance, conditions, frequencies,
                   consequences, gene_symbols>>
    /\ UNCHANGED parseVars

CaddReturn ==
    /\ pc = "cadd"
    /\ i = Len(df)
    /\ df' = SetColumn(df, "cadd_score", cadd_scores)
    /\ cadd_scores' = <<>>
    /\ i' = 0
    /\ pc' = "vep"
    /\ UNCHANGED <<clinical_significance, conditions, frequencies, consequences,
                   gene_symbols, calls>>
    /\ UNCHANGED parseVars

\* one iteration of annotate_with_vep's loop
VepLookup ==
    /\ pc = "vep"
    /\ i < Len(df)
    /\ \E o \in Outcomes :
         LET a == VepAnnotation(Response(o, VepBody(df[i + 1].pos)))
         IN  /\ consequences' = Append(consequences, a.consequence)
             /\ gene_symbols' = Append(gene_symbols, a.gene)
             /\ calls' = [calls EXCEPT !.vep = Append(@, o)]
    /\ i' = i + 1
    /\ UNCHANGED <<pc, df, clinical_significance, conditions, frequencies, cadd_scores>>
    /\ UNCHANGED parseVars

\* the last provider returns, and with it annotate_variants
VepReturn ==
    /\ pc = "vep"
    /\ i = Len(df)
    /\ df' = SetColumn(SetColumn(df, "consequence", consequences),
                       "gene_symbol", gene_symbols)
    /\ consequences' = <<>>
    /\ gene_symbols' = <<>>
    /\ i' = 0
    /\ pc' = "prioritize"
    /\ UNCHANGED <<clinical_significance, conditions, frequencies, cadd_scores, calls>>
    /\ UNCHANGED parseVars

-----------------------------------------------------------------------------
(* src/src/prioritizer.py *)

\* row.get(name, default)
RowGet(row, name, default) == IF name \in DOMAIN row THEN row[name] ELSE default

high_impact ==
    {<<"f","r","a","m","e","s","h","i","f","t","_","v","a","r","i","a","n","t">>, <<"s","t","o","p","_","g","a","i","n","e","d">>, <<"s","p","l","i","c","e","_","d","o","n","o","r","_","v","a","r","i","a","n","t">>,
     <<"s","p","l","i","c","e","_","a","c","c","e","p","t","o","r","_","v","a","r","i","a","n","t">>, <<"s","t","o","p","_","l","o","s","t">>, <<"s","t","a","r","t","_","l","o","s","t">>}

moderate_impact ==
    {<<"m","i","s","s","e","n","s","e","_","v","a","r","i","a","n","t">>, <<"i","n","f","r","a","m","e","_","d","e","l","e","t","i","o","n">>, <<"i","n","f","r","a","m","e","_","i","n","s","e","r","t","i","o","n">>}

\* the ClinVar block
ClinvarPoints(clinvar) == IF clinvar = "found_in_clinvar" THEN 30 ELSE 0

\* a slip in the frequency chain: the thresholds compared with <= for <
FrequencyPointsInclusive(af) ==
    IF af = 0 THEN 30
    ELSE IF af * 1000 <= AfScale THEN 25
    ELSE IF af * 100 <= AfScale THEN 15
    ELSE IF af * 20 <= AfScale THEN 5
    ELSE 0

\* a slip in the frequency chain: af <= 0 for af == 0, which gives the
\* failure value -1 the points of a variant absent from the population
FrequencyPointsFailedAsAbsent(af) ==
    IF af <= 0 THEN 30
    ELSE IF af * 1000 < AfScale THEN 25
    ELSE IF af * 100 < AfScale THEN 15
    ELSE IF af * 20 < AfScale THEN 5
    ELSE 0

\* the population-frequency chain: af == 0, af < 0.001, af < 0.01, af < 0.05
FrequencyPoints(af) ==
    IF af = 0 THEN 30
    ELSE IF af * 1000 < AfScale THEN 25
    ELSE IF af * 100 < AfScale THEN 15
    ELSE IF af * 20 < AfScale THEN 5
    ELSE 0

\* the CADD chain: cadd >= 30, >= 20, >= 10
CaddPoints(cadd) ==
    IF cadd >= 30 * CaddScale THEN 30
    ELSE IF cadd >= 20 * CaddScale THEN 20
    ELSE IF cadd >= 10 * CaddScale THEN 10
    ELSE 0

\* a slip in the consequence chain: the points of the two lists exchanged
ConsequencePointsExchanged(consequence) ==
    IF consequence \in high_impact THEN 20
    ELSE IF consequence \in moderate_impact THEN 30
    ELSE IF Contains(<<"u","p","s","t","r","e","a","m">>, consequence) \/ Contains(<<"d","o","w","n","s","t","r","e","a","m">>, consequence)
    THEN 5
    ELSE 0

\* the consequence chain
ConsequencePoints(consequence) ==
    IF consequence \in high_impact THEN 30
    ELSE IF consequence \in moderate_impact THEN 20
    ELSE IF Contains(<<"u","p","s","t","r","e","a","m">>, consequence) \/ Contains(<<"d","o","w","n","s","t","r","e","a","m">>, consequence)
    THEN 5
    ELSE 0

calculate_priority_score(row) ==
    ClinvarPoints(RowGet(row, "clinvar_significance", "")) +
    FrequencyPoints(RowGet(row, "gnomad_af", 0)) +
    CaddPoints(RowGet(row, "cadd_score", CaddFailed)) +
    ConsequencePoints(RowGet(row, "consequence", <<>>))

\* a slip in the tier chain: the thresholds compared with > for >=
assign_priority_tier_strict(score) ==
    IF score > 80 THEN "Critical"
    ELSE IF score > 50 THEN "High"
    ELSE IF score > 30 THEN "Medium"
    ELSE "Low"

assign_priority_tier(score) ==
    IF score >= 80 THEN "Critical"
    ELSE IF score >= 50 THEN "High"
    ELSE IF score >= 30 THEN "Medium"
    ELSE "Low"

Reorderings(n) ==
    {p \in [1..n -> 1..n] : \A a, b \in 1..n : a # b => p[a] # p[b]}

\* the indexers sort_values('priority_score', ascending=False) may compute.
\* The call passes no kind, so the sort is numpy's quicksort, which is not
\* stable: the scores come out in descending order and rows of equal score
\* in an order the build decides.
SortIndexers(scores) ==
    {p \in Reorderings(Len(scores)) :
        \A k \in 1..(Len(scores) - 1) : scores[p[k]] >= scores[p[k + 1]]}

\* df.apply(calculate_priority_score, axis=1)
ScoreColumn(frame) == [k \in 1..Len(frame) |-> calculate_priority_score(frame[k])]

\* df['priority_score'].apply(assign_priority_tier)
TierColumn(frame) == [k \in 1..Len(frame) |-> assign_priority_tier(frame[k].priority_score)]

\* the frame with its rows taken in the indexer's order and a fresh index
TakeRows(frame, indexer) == [k \in 1..Len(frame) |-> frame[indexer[k]]]

\* prioritize_variants(df): both columns set, then the sort
Prioritize ==
    /\ pc = "prioritize"
    /\ \E scored \in {SetColumn(df, "priority_score", ScoreColumn(df))} :
       \E tiered \in {SetColumn(scored, "priority_tier", TierColumn(scored))} :
       \E indexer \in SortIndexers([k \in 1..Len(tiered) |-> tiered[k].priority_score]) :
         /\ df' = TakeRows(tiered, indexer)
         /\ order' = indexer
    /\ pc' = "done"
    /\ UNCHANGED <<file, lineno, variants, exc, parsed>>
    /\ UNCHANGED annotVars

-----------------------------------------------------------------------------
(* The pipeline of src/app.py: parse_vcf, annotate_variants,                *)
(* prioritize_variants                                                      *)

\* most data lines in a file the whole pipeline is run on
MaxVariants == 2

SampleData == <<SnvLine, DeletionLine, InsertionLine, SubstitutionLine>>

\* a VCF file: the two header lines and n data lines
\* a VCF file: the two header lines and n data lines, the sample's from
\* line first on, going round
SampleFile(first, n) ==
    <<MetaLine, ColumnLine>> \o
    [k \in 1..n |-> SampleData[((first + k - 2) % Len(SampleData)) + 1]]

PipelineFiles ==
    {SampleFile(first, n) : first \in 1..Len(SampleData), n \in 0..MaxVariants}
    \cup {<<ColumnLine, SnvLine, BadPosLine>>}

Init == \E f \in PipelineFiles : ParseStart(f)

Next ==
    \/ SkipHeaderLine
    \/ ParseDataLine
    \/ ParseRaise
    \/ ParseReturn
    \/ ClinvarLookup
    \/ ClinvarReturn
    \/ GnomadLookup
    \/ GnomadReturn
    \/ CaddLookup
    \/ CaddReturn
    \/ VepLookup
    \/ VepReturn
    \/ Prioritize

Spec == Init /\ [][Next]_vars

-----------------------------------------------------------------------------
(* prioritize_variants on its own, as prioritizer.py's main block runs it:  *)
(* on an annotated frame that is given                                      *)

ClinvarValues == {"found_in_clinvar", "not_in_clinvar", "api_error", "error"}

\* gnomad_af: the failure value, 0, and frequencies at and around the
\* thresholds 0.001, 0.01 and 0.05, up to 1
AfValues == {AfFailed, 0, 5, 9, 10, 99, 100, 200, 499, 500, 3000, AfScale}

\* cadd_score: the failure value and scores at and around 10, 20 and 30
CaddValues == {CaddFailed, 0, 50, 99, 100, 199, 200, 299, 300, 350}

ConsequenceValues ==
    {<<"s","t","o","p","_","g","a","i","n","e","d">>, <<"s","t","a","r","t","_","l","o","s","t">>, <<"m","i","s","s","e","n","s","e","_","v","a","r","i","a","n","t">>,
     <<"u","p","s","t","r","e","a","m","_","g","e","n","e","_","v","a","r","i","a","n","t">>, <<"d","o","w","n","s","t","r","e","a","m","_","g","e","n","e","_","v","a","r","i","a","n","t">>,
     <<"s","y","n","o","n","y","m","o","u","s","_","v","a","r","i","a","n","t">>, <<"a","p","i","_","e","r","r","o","r">>, <<"e","r","r","o","r">>}

\* a row as annotate_variants leaves it
AnnotatedRow(clinvar, af, cadd, consequence) ==
    [clinvar_significance |-> clinvar,
     clinvar_condition |-> "none",
     gnomad_af |-> af,
     cadd_score |-> cadd,
     consequence |-> consequence,
     gene_symbol |-> <<"B","R","C","A","1">>] @@ VariantRow(Fields(SnvLine))

\* the rows that differ from r in exactly one of the four signals
OneSignalAway(r) ==
    {[r EXCEPT !.clinvar_significance = c] : c \in ClinvarValues \ {r.clinvar_significance}}
    \cup {[r EXCEPT !.gnomad_af = a] : a \in AfValues \ {r.gnomad_af}}
    \cup {[r EXCEPT !.cadd_score = s] : s \in CaddValues \ {r.cadd_score}}
    \cup {[r EXCEPT !.consequence = q] : q \in ConsequenceValues \ {r.consequence}}

\* the frames that start with row r: r alone, or r and a row that differs
\* from it in one signal
FramesFrom(r) == {<<r>>} \cup {<<r, r2>> : r2 \in OneSignalAway(r)}

InitScore ==
    /\ file = <<>>
    /\ lineno = 0
    /\ variants = <<>>
    /\ exc = NoException
    /\ pc = "prioritize"
    /\ \E c \in ClinvarValues, a \in AfValues, s \in CaddValues, q \in ConsequenceValues :
         df \in FramesFrom(AnnotatedRow(c, a, s, q))
    /\ parsed = <<>>
    /\ i = 0
    /\ NoLists
    /\ calls = NoCalls
    /\ order = <<>>

NextScore == Prioritize

SpecScore == InitScore /\ [][NextScore]_vars

-----------------------------------------------------------------------------
(* The scoring rule as the specification tabulates it (section 4.4), one    *)
(* bucket per signal, for frequencies in [0, 1]                             *)

TableClinvar(significance) == IF significance = "found_in_clinvar" THEN 30 ELSE 0

TableFrequency(af) ==
    CASE af = 0 -> 30
      [] 0 < af /\ af * 1000 < AfScale -> 25
      [] AfScale <= af * 1000 /\ af * 100 < AfScale -> 15
      [] AfScale <= af * 100 /\ af * 20 < AfScale -> 5
      [] AfScale <= af * 20 -> 0

TableCadd(score) ==
    CASE score >= 30 * CaddScale -> 30
      [] 20 * CaddScale <= score /\ score < 30 * CaddScale -> 20
      [] 10 * CaddScale <= score /\ score < 20 * CaddScale -> 10
      [] score < 10 * CaddScale -> 0

TableConsequence(consequence) ==
    CASE consequence \in high_impact -> 30
      [] consequence \notin high_impact /\ consequence \in moderate_impact -> 20
      [] /\ consequence \notin high_impact
         /\ consequence \notin moderate_impact
         /\ (Contains(<<"u","p","s","t","r","e","a","m">>, consequence) \/ Contains(<<"d","o","w","n","s","t","r","e","a","m">>, consequence)) -> 5
      [] OTHER -> 0

IsFrequency(af) == 0 <= af /\ af <= AfScale

Rows == 1..Len(df)

-----------------------------------------------------------------------------
(* C1: a row whose gnomad_af is the lookup-failure value -1 gets no points  *)
(* for population frequency: its score is the sum of its other three        *)
(* signals' points, whatever they are.                                      *)
C1_SentinelScoresZero ==
    pc = "done" =>
        \A k \in Rows :
            df[k].gnomad_af = AfFailed =>
                df[k].priority_score =
                    TableClinvar(df[k].clinvar_significance) +
                    TableCadd(df[k].cadd_score) +
                    TableConsequence(df[k].consequence)

(* C2: for a frequency in [0, 1] and any CADD score, the failure value      *)
(* included, the score is the sum of the four signals' table entries.       *)
C2_ScoreIsSumOfBuckets ==
    pc = "done" =>
        \A k \in Rows :
            IsFrequency(df[k].gnomad_af) =>
                df[k].priority_score =
                    TableClinvar(df[k].clinvar_significance) +
                    TableFrequency(df[k].gnomad_af) +
                    TableCadd(df[k].cadd_score) +
                    TableConsequence(df[k].consequence)

\* the specification's example: found_in_clinvar, af 0, cadd 35, stop_gained
C2_Witness ==
    /\ pc = "done"
    /\ \E k \in Rows :
         /\ df[k].clinvar_significance = "found_in_clinvar"
         /\ df[k].gnomad_af = 0
         /\ df[k].cadd_score = 35 * CaddScale
         /\ df[k].consequence = <<"s","t","o","p","_","g","a","i","n","e","d">>
         /\ df[k].priority_score = 120

(* C3: in every output row the tier is fixed by the row's own score:        *)
(* Critical iff score >= 80, High iff 50 <= score < 80, Medium iff           *)
(* 30 <= score < 50, Low iff score < 30.                                    *)
C3_TierByScore ==
    pc = "done" =>
        \A k \in Rows :
            LET score == df[k].priority_score
                tier == df[k].priority_tier
            IN  /\ tier \in {"Critical", "High", "Medium", "Low"}
                /\ tier = "Critical" <=> score >= 80
                /\ tier = "High" <=> (50 <= score /\ score < 80)
                /\ tier = "Medium" <=> (30 <= score /\ score < 50)
                /\ tier = "Low" <=> score < 30

\* two rows either side of the Critical threshold
C3_Witness ==
    /\ pc = "done"
    /\ Len(df) = 2
    /\ df[1].priority_score = 80 /\ df[1].priority_tier = "Critical"
    /\ df[2].priority_score = 75 /\ df[2].priority_tier = "High"

-----------------------------------------------------------------------------
(* Severity buckets of each signal, least severe first *)

ClinvarBucket(significance) == IF significance = "found_in_clinvar" THEN 1 ELSE 0

\* of a frequency in [0, 1]: the rarer, the more severe
FrequencyBucket(af) ==
    CASE af = 0 -> 4
      [] 0 < af /\ af * 1000 < AfScale -> 3
      [] AfScale <= af * 1000 /\ af * 100 < AfScale -> 2
      [] AfScale <= af * 100 /\ af * 20 < AfScale -> 1
      [] OTHER -> 0

CaddBucket(score) ==
    CASE score >= 30 * CaddScale -> 3
      [] score >= 20 * CaddScale -> 2
      [] score >= 10 * CaddScale -> 1
      [] OTHER -> 0

ConsequenceBucket(consequence) ==
    CASE consequence \in high_impact -> 3
      [] consequence \in moderate_impact -> 2
      [] Contains(<<"u","p","s","t","r","e","a","m">>, consequence) \/ Contains(<<"d","o","w","n","s","t","r","e","a","m">>, consequence) -> 1
      [] OTHER -> 0

SameClinvar(a, b) == a.clinvar_significance = b.clinvar_significance
SameFrequency(a, b) == a.gnomad_af = b.gnomad_af
SameCadd(a, b) == a.cadd_score = b.cadd_score
SameConsequence(a, b) == a.consequence = b.consequence

\* b is a with exactly one signal moved to a more severe bucket
MoreSevereInOneSignal(a, b) ==
    \/ /\ SameFrequency(a, b) /\ SameCadd(a, b) /\ SameConsequence(a, b)
       /\ ClinvarBucket(b.clinvar_significance) > ClinvarBucket(a.clinvar_significance)
    \/ /\ SameClinvar(a, b) /\ SameCadd(a, b) /\ SameConsequence(a, b)
       /\ IsFrequency(a.gnomad_af) /\ IsFrequency(b.gnomad_af)
       /\ FrequencyBucket(b.gnomad_af) > FrequencyBucket(a.gnomad_af)
    \/ /\ SameClinvar(a, b) /\ SameFrequency(a, b) /\ SameConsequence(a, b)
       /\ CaddBucket(b.cadd_score) > CaddBucket(a.cadd_score)
    \/ /\ SameClinvar(a, b) /\ SameFrequency(a, b) /\ SameCadd(a, b)
       /\ ConsequenceBucket(b.consequence) > ConsequenceBucket(a.consequence)

(* C7: of two rows that differ in one signal only, the one whose signal     *)
(* lies in the more severe bucket never has the lower score.                *)
C7_MonotonicInEachSignal ==
    pc = "done" =>
        \A j, k \in Rows :
            MoreSevereInOneSignal(df[j], df[k]) =>
                df[k].priority_score >= df[j].priority_score

\* the specification's example: af dropping from 0.02 to 0.0005
C7_Witness ==
    /\ pc = "done"
    /\ \E j, k \in Rows :
         /\ df[j].gnomad_af * 100 = 2 * AfScale
         /\ df[k].gnomad_af * 10000 = 5 * AfScale
         /\ MoreSevereInOneSignal(df[j], df[k])
         /\ df[k].priority_score = df[j].priority_score + 20

-----------------------------------------------------------------------------
(* Claims about the pipeline *)

CoreFields ==
    {"variant_id", "chrom", "pos", "ref", "alt", "qual", "filter", "variant_type"}

Core(row) == [f \in CoreFields |-> row[f]]

Providers == {"clinvar", "gnomad", "cadd", "vep"}

\* annotate_variants is running or has just returned
Annotating == pc \in {"clinvar", "gnomad", "cadd", "vep", "prioritize"}

(* C4: whatever the providers do, annotate_variants keeps one row per input *)
(* variant, row k being input variant k: while it runs and when it returns  *)
(* the frame has exactly the parsed rows, in the parsed order.              *)
C4_OneRowPerVariantInOrder ==
    Annotating =>
        /\ Len(df) = Len(parsed)
        /\ \A k \in Rows : Core(df[k]) = Core(parsed[k])

\* annotate_variants has returned two rows after successes, statuses other
\* than 200 and exceptions
C4_Witness ==
    /\ pc = "prioritize"
    /\ Len(df) = 2
    /\ df[1].variant_id # df[2].variant_id
    /\ calls.clinvar = <<"exception", "ok">>
    /\ calls.gnomad = <<"failed", "ok">>
    /\ calls.cadd = <<"ok", "failed">>
    /\ calls.vep = <<"non200", "exception">>

\* every provider call made so far has failed
AllCallsFailed ==
    \A p \in Providers : \A k \in 1..Len(calls[p]) : calls[p][k] # "ok"

FailureTerms == {<<"a","p","i","_","e","r","r","o","r">>, <<"e","r","r","o","r">>}

(* C5: when every provider call fails for every variant of a non-empty      *)
(* input, nothing is raised on the way, and once the run is done every row  *)
(* holds a failure value in every annotation field and has tier Low.        *)
C5_AllFailuresAllLow ==
    (Len(parsed) > 0 /\ AllCallsFailed) =>
        /\ exc = NoException
        /\ pc # "raised"
        /\ pc = "done" =>
             \A k \in Rows :
                 /\ df[k].clinvar_significance \in {"api_error", "error"}
                 /\ df[k].consequence \in FailureTerms
                 /\ df[k].gnomad_af = AfFailed
                 /\ df[k].cadd_score = CaddFailed
                 /\ df[k].priority_tier = "Low"

C5_Witness ==
    /\ pc = "done"
    /\ Len(df) = 2
    /\ AllCallsFailed
    /\ \A p \in Providers : Len(calls[p]) = 2
    /\ \A k \in Rows : df[k].priority_tier = "Low" /\ df[k].gnomad_af = AfFailed

(* C6: the output rows are in descending order of score, and rows of equal  *)
(* score keep the relative order they had in the input.                     *)
C6_StableDescending ==
    pc = "done" =>
        \A j, k \in Rows :
            j < k =>
                /\ df[j].priority_score >= df[k].priority_score
                /\ df[j].priority_score = df[k].priority_score => order[j] < order[k]

\* a data line with fewer than 7 tab-separated fields or a position that is
\* no number
Malformed(line) ==
    /\ ~IsHeaderLine(line)
    /\ \/ Len(Fields(line)) < 7
       \/ ~IntOk(Fields(line)[2])

(* C8: a malformed data line is reported as a MalformedRecord error that    *)
(* names the line's number, and it does not end the parse (no               *)
(* stop-on-first-error mode is configured, the parser having none).         *)
C8_MalformedRecordReported ==
    \A n \in 1..lineno :
        Malformed(file[n]) =>
            /\ exc.type = "MalformedRecord"
            /\ "line" \in DOMAIN exc
            /\ exc.line = n
            /\ pc # "raised"

\* the data lines among the lines read so far
DataLinesRead == SelectSeq(SubSeq(file, 1, lineno), LAMBDA line : ~IsHeaderLine(line))

\* the row says of the line's alleles what the claim says: the type by the
\* allele lengths alone, the identifier chrom-pos-ref-alt
RowOfLine(row, line) ==
    LET chrom == Fields(line)[1]
        ref == Fields(line)[4]
        alt == Fields(line)[5]
        snv == Len(ref) = 1 /\ Len(alt) = 1
    IN  /\ row.ref = ref
        /\ row.alt = alt
        /\ row.variant_type = "SNV" <=> snv
        /\ row.variant_type = "deletion" <=> (~snv /\ Len(ref) > Len(alt))
        /\ row.variant_type = "insertion" <=> (~snv /\ Len(ref) <= Len(alt))
        /\ row.variant_id =
               chrom \o <<"-">> \o IntToStr(row.pos) \o <<"-">> \o ref \o <<"-">> \o alt

\* the input row that output row k is: the sort's indexer says which
Source(k) == IF pc = "done" THEN order[k] ELSE k

\* output row k still carries the type, the identifier and the alleles that
\* parse_vcf gave its variant
AsParsed(k) ==
    /\ df[k].variant_type = parsed[Source(k)].variant_type
    /\ df[k].variant_id = parsed[Source(k)].variant_id
    /\ df[k].ref = parsed[Source(k)].ref
    /\ df[k].alt = parsed[Source(k)].alt

(* C9: every row's variant_type follows from its line's allele lengths      *)
(* alone (SNV iff both are 1, else deletion iff ref is longer, else         *)
(* insertion), its variant_id is chrom-pos-ref-alt, and the row of that     *)
(* variant still says so after annotate_variants and prioritize_variants.   *)
C9_TypeFromAlleleLengths ==
    /\ pc = "parse" =>
         /\ Len(variants) = Len(DataLinesRead)
         /\ \A k \in 1..Len(variants) : RowOfLine(variants[k], DataLinesRead[k])
    /\ (pc = "clinvar" /\ i = 0) =>
         /\ Len(parsed) = Len(DataLinesRead)
         /\ \A k \in 1..Len(parsed) : RowOfLine(parsed[k], DataLinesRead[k])
    /\ pc \notin {"parse", "raised"} =>
         /\ Len(df) = Len(parsed)
         /\ \A k \in Rows : AsParsed(k)

\* a deletion and an insertion, annotated, scored and swapped by the sort
C9_Witness ==
    /\ pc = "done"
    /\ order = <<2, 1>>
    /\ df[1].variant_type = "insertion" /\ df[1].variant_id = <<"c","h","r","X","-","1","2","-","A","-","A","T","G">>
    /\ df[2].variant_type = "deletion" /\ df[2].variant_id = <<"c","h","r","2","-","7","-","A","T","G","-","A">>

\* the outcomes a history entry stands for
Matching(entry) == IF entry = "failed" THEN Failures ELSE {entry}

\* the positions of the sample's variants
SamplePositions == {VariantRow(Fields(SampleData[n])).pos : n \in 1..Len(SampleData)}

\* what each handler makes of each outcome of the call for each position
ClinvarOf ==
    [pos \in SamplePositions |->
        [o \in Outcomes |-> ClinvarAnnotation(Response(o, ClinvarBody(pos)))]]
GnomadOf ==
    [pos \in SamplePositions |->
        [o \in Outcomes |-> GnomadFrequency(Response(o, GnomadBody(pos)))]]
CaddOf ==
    [pos \in SamplePositions |->
        [o \in Outcomes |-> CaddScoreOf(Response(o, CaddBody(pos)))]]
VepOf ==
    [pos \in SamplePositions |->
        [o \in Outcomes |-> VepAnnotation(Response(o, VepBody(pos)))]]

(* C10: each provider's fields in a row are what that provider's handler    *)
(* makes of its own call for that row's variant, and of nothing else: not   *)
(* of the other providers' calls for the variant, nor of any call for       *)
(* another variant.                                                         *)
C10_ProviderOutcomesIsolated ==
    pc \in {"prioritize", "done"} =>
        \A k \in Rows :
            LET row == df[k]
                pos == parsed[Source(k)].pos
            IN  /\ \A o \in Matching(calls.clinvar[Source(k)]) :
                     /\ row.clinvar_significance = ClinvarOf[pos][o].clin_sig
                     /\ row.clinvar_condition = ClinvarOf[pos][o].condition
                /\ \A o \in Matching(calls.gnomad[Source(k)]) :
                     row.gnomad_af = GnomadOf[pos][o]
                /\ \A o \in Matching(calls.cadd[Source(k)]) :
                     row.cadd_score = CaddOf[pos][o]
                /\ \A o \in Matching(calls.vep[Source(k)]) :
                     /\ row.consequence = VepOf[pos][o].consequence
                     /\ row.gene_symbol = VepOf[pos][o].gene

\* only the gnomAD call for the first variant failed: the first row's other
\* fields and the whole second row hold what the successful calls returned
C10_Witness ==
    /\ pc = "prioritize"
    /\ Len(df) = 2
    /\ calls = [clinvar |-> <<"ok", "ok">>, gnomad |-> <<"failed", "ok">>,
                cadd |-> <<"ok", "ok">>, vep |-> <<"ok", "ok">>]
    /\ df[1].gnomad_af = AfFailed
    /\ df[1].clinvar_significance = "found_in_clinvar"
    /\ df[1].cadd_score = 35 * CaddScale
    /\ df[1].consequence = <<"s","t","o","p","_","g","a","i","n","e","d">>
    /\ df[2].gnomad_af = 0
    /\ df[2].clinvar_significance = "not_in_clinvar"

=============================================================================
